---------------------------- MODULE Spec2Model ----------------------------
(***************************************************************************)
(* Model of programs/blossom-sol/src/lib.rs: an Anchor program with one    *)
(* instruction handler, execute_intent, whose accounts struct              *)
(* ExecuteIntent declares no accounts and whose body is `Ok(())`.          *)
(*                                                                         *)
(* The ledger (AccountState balances, ExecutionRecords) and the logical    *)
(* clock belong to the host runtime.  They are modelled so that the        *)
(* statements about them can be checked against what the handler does.     *)
(***************************************************************************)
EXTENDS Integers, FiniteSets, Sequences, TLC

\* ------------------------------------------------------------------ bounds
\* Width, in bits, of the modelled unsigned amount type (u64 in the source).
AmountBits == 7
\* Intent ids are 1..MaxId.
MaxId == 2
\* Logical time runs over 0..MaxTime.
MaxTime == 1
\* At most MaxCalls invocations are counted in one behaviour.
MaxCalls == 2
\* The balance and the amount of the worked example of the specification.
ExampleBalance == 100
ExampleAmount == 30

\* ------------------------------------------------------------- value sets
\* Largest value of the amount type (u64::MAX at the modelled width).
U64_MAX == 2 ^ AmountBits - 1

Amounts == {0, 1, ExampleAmount, U64_MAX}
Balances == {0, 1, ExampleBalance}
Actors == {"A", "B"}
Ids == 1 .. MaxId
Times == 0 .. MaxTime

\* An intent as the caller submits it; amount is the handler's u64 argument.
Intent == [id : Ids, actor : Actors, amount : Amounts, expiry : Times, signed : BOOLEAN]
NoIntent == [id |-> 0, actor |-> "none", amount |-> 0, expiry |-> 0, signed |-> FALSE]

Errors == {"ValidationError", "NotFoundError", "DuplicateExecutionError", "InsufficientFundsError"}

\* declare_id!: the program id.
ID == "ReplaceWithProgramId1111111111111111111111111"

\* #[derive(Accounts)] pub struct ExecuteIntent {}: a struct with no fields.
ExecuteIntent == <<>>

VARIABLES
    balance,    \* AccountState: actor -> balance (held by the runtime)
    records,    \* ExecutionRecords: executed intent id -> [executed_at]
    now,        \* current logical time
    calls,      \* number of execute_intent invocations so far
    last,       \* the last invocation: intent, time, result, state before it
    executed,   \* id -> persisted state right after its first successful call
    applied,    \* ids of the intents whose invocation changed a balance
    initial     \* the persisted state at start

vars == <<balance, records, now, calls, last, executed, applied, initial>>

Persisted == [balance |-> balance, records |-> records]

\* ------------------------------------------------------------ the handler
\* Results of a handler: the returned value and the accounts as it leaves them.
Ok(accounts) == [ret |-> "Ok", accounts |-> accounts]
Err(e, accounts) == [ret |-> e, accounts |-> accounts]

execute_intent_rejects_zero(ctx, amount) ==
    IF amount = 0
    THEN Err("ValidationError", ctx.remaining_accounts)
    ELSE Ok(ctx.remaining_accounts)

execute_intent_checks_expiry(ctx, amount) ==
    IF ctx.intent.expiry < ctx.clock
    THEN Err("ValidationError", ctx.remaining_accounts)
    ELSE Ok(ctx.remaining_accounts)

execute_intent_checks_funds(ctx, amount) ==
    IF amount > ctx.remaining_accounts.balance[ctx.intent.actor]
    THEN Err("InsufficientFundsError", ctx.remaining_accounts)
    ELSE Ok(ctx.remaining_accounts)

execute_intent_debits(ctx, amount) ==
    LET acc == ctx.remaining_accounts
        a == ctx.intent.actor
    IN  IF amount <= acc.balance[a]
        THEN Ok([acc EXCEPT !.balance[a] = @ - amount])
        ELSE Ok(acc)

execute_intent_record_only(ctx, amount) ==
    LET acc == ctx.remaining_accounts
        id == ctx.intent.id
    IN  Ok([acc EXCEPT !.records =
              [i \in DOMAIN acc.records \cup {id} |->
                  IF i \in DOMAIN acc.records THEN acc.records[i]
                  ELSE [executed_at |-> ctx.clock]]])

execute_intent_replay_guard(ctx, amount) ==
    IF ctx.intent.id \in DOMAIN ctx.remaining_accounts.records
    THEN Err("DuplicateExecutionError", ctx.remaining_accounts)
    ELSE execute_intent_record_only(ctx, amount)

execute_intent_settles(ctx, amount) ==
    LET acc == ctx.remaining_accounts
        in == ctx.intent
    IN  IF ~in.signed \/ in.expiry < ctx.clock \/ amount = 0
        THEN Err("ValidationError", acc)
        ELSE IF in.id \in DOMAIN acc.records
        THEN Err("DuplicateExecutionError", acc)
        ELSE IF amount > acc.balance[in.actor]
        THEN Err("InsufficientFundsError", acc)
        ELSE Ok([balance |-> [acc.balance EXCEPT ![in.actor] = @ - amount],
                 records |-> [i \in DOMAIN acc.records \cup {in.id} |->
                                 IF i \in DOMAIN acc.records THEN acc.records[i]
                                 ELSE [executed_at |-> ctx.clock]]])

\* pub fn execute_intent(_ctx, _amount) -> Result<()> { Ok(()) }
\* Neither argument is used; no account is touched.
execute_intent(ctx, amount) ==
    Ok(ctx.remaining_accounts)

\* ---------------------------------------------------------------- actions
Init ==
    /\ balance \in [Actors -> Balances]
    /\ records = <<>>
    /\ now = 0
    /\ calls = 0
    /\ last = [intent |-> NoIntent, at |-> 0, ret |-> "None", replay |-> FALSE,
               pre |-> [balance |-> balance, records |-> records]]
    /\ executed = <<>>
    /\ applied = {}
    /\ initial = [balance |-> balance, records |-> records]

\* The #[program] entrypoint: one invocation of execute_intent, run to
\* completion.  The runtime keeps the handler's writes on Ok and discards
\* them on an error.
Dispatch(in) ==
    /\ calls < MaxCalls
    /\ LET ctx == [program_id |-> ID,
                   accounts |-> ExecuteIntent,
                   remaining_accounts |-> Persisted,
                   intent |-> in,
                   clock |-> now]
           out == execute_intent(ctx, in.amount)
           post == IF out.ret = "Ok" THEN out.accounts ELSE Persisted
       IN  /\ balance' = post.balance
           /\ records' = post.records
           /\ last' = [intent |-> in, at |-> now, ret |-> out.ret,
                       replay |-> in.id \in DOMAIN executed,
                       pre |-> Persisted]
           /\ executed' =
                IF out.ret = "Ok" /\ in.id \notin DOMAIN executed
                THEN [i \in DOMAIN executed \cup {in.id} |->
                        IF i \in DOMAIN executed THEN executed[i] ELSE post]
                ELSE executed
           /\ applied' = IF post.balance # balance THEN applied \cup {in.id} ELSE applied
    /\ calls' = calls + 1
    /\ UNCHANGED <<now, initial>>

\* The runtime's logical clock advances between invocations.
Tick ==
    /\ now < MaxTime
    /\ now' = now + 1
    /\ UNCHANGED <<balance, records, calls, last, executed, applied, initial>>

Next ==
    \/ \E in \in Intent : Dispatch(in)
    \/ Tick

Spec == Init /\ [][Next]_vars

\* ----------------------------------------------------------------- claims
\* The last invocation's intent is valid: signed, unexpired when submitted,
\* with a nonzero amount.
LastValid ==
    /\ calls > 0
    /\ last.intent.signed
    /\ last.intent.expiry >= last.at
    /\ last.intent.amount > 0

\* The actor of the last invocation could pay the amount when it was submitted.
LastFunded == calls > 0 /\ last.intent.amount <= last.pre.balance[last.intent.actor]

\* C1: every invocation of execute_intent, whatever its context and amount
\* (0 and u64::MAX included), returns Ok(()); none returns an error.
C1_AlwaysOk == calls > 0 => last.ret = "Ok"

C1_Witness ==
    /\ calls = MaxCalls
    /\ last.intent.amount = U64_MAX
    /\ ~last.intent.signed
    /\ last.ret = "Ok"

\* C2 as stated: a valid, funded intent leaves exactly one ExecutionRecord
\* for its id and the actor's balance reduced by the amount.
C2_Original ==
    (LastValid /\ LastFunded) =>
        /\ last.intent.id \in DOMAIN records
        /\ balance[last.intent.actor] = last.pre.balance[last.intent.actor] - last.intent.amount

\* C2 amended: a valid, funded intent is answered Ok(()), but no
\* ExecutionRecord is created for its id and the balance is not changed.
C2_NoSettlement ==
    (LastValid /\ LastFunded) =>
        /\ last.ret = "Ok"
        /\ last.intent.id \notin DOMAIN records
        /\ balance = last.pre.balance

C2_Witness ==
    /\ LastValid
    /\ last.intent.id = 1
    /\ last.intent.amount = ExampleAmount
    /\ last.pre.balance[last.intent.actor] = ExampleBalance
    /\ last.ret = "Ok"
    /\ balance[last.intent.actor] = ExampleBalance
    /\ 1 \notin DOMAIN records

\* C3 as stated: resubmitting an id that was executed successfully fails
\* with DuplicateExecutionError and leaves the state as it was after the
\* first execution.
C3_Original ==
    last.replay =>
        /\ last.ret = "DuplicateExecutionError"
        /\ Persisted = executed[last.intent.id]

\* C3 amended: resubmitting an id that was executed successfully succeeds
\* again with Ok(()), and the state is as it was after the first execution.
C3_ReplayAccepted ==
    last.replay =>
        /\ last.ret = "Ok"
        /\ Persisted = executed[last.intent.id]

C3_Witness ==
    /\ last.replay
    /\ calls >= 2
    /\ last.ret = "Ok"
    /\ Persisted = executed[last.intent.id]

C5_Original ==
    (calls > 0 /\ last.intent.expiry < last.at) => last.ret = "ValidationError"

\* C5 amended: an intent whose expiry is before the current logical time is
\* accepted with Ok(()), whatever the balance and the amount.
C5_ExpiredAccepted ==
    (calls > 0 /\ last.intent.expiry < last.at) => last.ret = "Ok"

C5_Witness ==
    /\ calls > 0
    /\ last.intent.expiry < last.at
    /\ last.intent.signed
    /\ LastFunded
    /\ last.ret = "Ok"

\* C6 as stated: an intent whose amount exceeds the actor's balance is
\* rejected with InsufficientFundsError, the state is unchanged, and every
\* balance is non-negative.
C6_Original ==
    /\ (calls > 0 /\ ~LastFunded) =>
          (last.ret = "InsufficientFundsError" /\ Persisted = last.pre)
    /\ \A a \in Actors : balance[a] >= 0

\* C6 amended: an intent whose amount exceeds the actor's balance is
\* answered Ok(()), the state is unchanged, and every balance is non-negative.
C6_OverdraftAccepted ==
    /\ (calls > 0 /\ ~LastFunded) => (last.ret = "Ok" /\ Persisted = last.pre)
    /\ \A a \in Actors : balance[a] >= 0

C6_Witness ==
    /\ calls > 0
    /\ last.intent.amount = U64_MAX
    /\ last.pre.balance[last.intent.actor] = 0
    /\ last.ret = "Ok"
    /\ balance[last.intent.actor] = 0

\* C9 as stated: an invocation ends Applied (success) exactly when the
\* ExecutionRecord of its intent exists, and Rejected (an error) otherwise
\* with the state unchanged.
C9_Original ==
    calls > 0 =>
        /\ last.ret \in {"Ok"} \cup Errors
        /\ (last.ret = "Ok") <=> (last.intent.id \in DOMAIN records)
        /\ (last.ret \in Errors) => Persisted = last.pre

\* C9 amended: every invocation runs to completion in one step and ends in
\* success, with no ExecutionRecord for its intent and no state change.
C9_Terminal ==
    calls > 0 =>
        /\ last.ret = "Ok"
        /\ last.ret \notin Errors
        /\ last.intent.id \notin DOMAIN records
        /\ Persisted = last.pre

C9_Witness ==
    /\ calls = MaxCalls
    /\ last.ret = "Ok"
    /\ last.intent.id = MaxId
    /\ MaxId \notin DOMAIN records
    /\ now = MaxTime

\* C10: after any sequence of invocations the persisted state is the initial
\* state (execute_intent writes no account), and a call's outcome is the
\* same whatever calls came before it.
C10_NoStateChange ==
    /\ Persisted = initial
    /\ applied = {}
    /\ calls > 0 => last.ret = "Ok"

C10_Witness ==
    /\ calls = MaxCalls
    /\ LastValid
    /\ LastFunded
    /\ last.intent.amount = 1
    /\ DOMAIN executed = Ids
    /\ Persisted = initial

=============================================================================
